---------------------------- MODULE Spec2Model ----------------------------
(***************************************************************************)
(* Model of the channel dialer (digit queue + resolve timer), the channel  *)
(* registry and the easter-egg cooldown manager of fieldstation-remote.    *)
(*                                                                         *)
(* Time is a discrete clock `now` counted in seconds.  A threading.Timer   *)
(* is a slot with a state: "free" (never started, finished, or cancelled   *)
(* before its wait ended), "armed" (its thread is still waiting), or       *)
(* "dispatched" (its wait ended with the finished event not set, so its    *)
(* callback will run as soon as it gets the lock; cancel() can no longer   *)
(* stop it and only sets the `cancelled` flag).                            *)
(***************************************************************************)
EXTENDS Integers, Sequences, FiniteSets, TLC

(***************************************************************************)
(* Bounds of the model.                                                    *)
(***************************************************************************)
MaxLen == 4
MaxTimers == 3
MaxCleanupTimers == 2
MaxTime == 4
MaxGateTime == 2
MaxCleanupTime == 1
StartTime == 3600
DigitTimeout == 2
MaxChannel == 14
Debounce == 2
MaxCommands == 3

Digits == {0, 1, 2}
TimerIds == 1..MaxTimers
CleanupTimerIds == 1..MaxCleanupTimers
Threads == {"foreground", "resolve"}
None == 0
NoTime == -1

(***************************************************************************)
(* Configuration of the program.                                           *)
(***************************************************************************)
VALID_CHANNELS == <<1, 2, 3, 8, 9, 13>>
ResetCooldown == 2
KeyReset == <<0, 0, 0, 0>>
KeyEmergency == <<9, 1, 1>>

\* EasterEggRegistry._registry: the entries "0000" and "911".  A missing
\* "cleanup" is "none" and a missing "duration" is 0 (config.get gives None).
Registry ==
  (KeyReset :> [display |-> "DISP:RST", action |-> "full_reset",
                cleanup |-> "none", cooldown |-> ResetCooldown, duration |-> 0])
  @@
  (KeyEmergency :> [display |-> "DISP:SHIT", action |-> "emergency_mode",
                    cleanup |-> "_cleanup_emergency_mode", cooldown |-> 3600,
                    duration |-> 10])

Keys == DOMAIN Registry

VARIABLES
  digit_queue,      \* ChannelDialer.digit_queue
  timer,            \* ChannelDialer.timer: a timer id, or None
  timers,           \* the threading.Timer objects started by add_digit
  last_digit_time,  \* ChannelDialer.last_digit_time
  registry,         \* EasterEggRegistry._registry: the registered sequences
  clean,            \* history: the digits in the queue were typed into an empty
                    \* queue, each less than the digit timeout after the one before
  current_channel,  \* ChannelDialer.current_channel
  last_activation,  \* EasterEggCooldownManager.last_activation (NoTime: absent)
  active_effects,   \* EasterEggCooldownManager.active_effects (NoTime: absent)
  cleanup_timers,   \* EasterEggCooldownManager.cleanup_timers (None: absent)
  ctimers,          \* the threading.Timer objects started by activate_easter_egg
  effects,          \* history: per key, the effects started and not cancelled
                    \* whose cleanup has not run (owed), and when the key was
                    \* last activated and its action last and last but one run
  trig,             \* per thread, where it is inside trigger_easter_egg
  last_event,       \* IRRemoteMapperApp.last_event ("None": no event yet)
  last_event_time,  \* IRRemoteMapperApp.last_event_time
  dq_queue,         \* DisplayQueue.queue
  dq_stop,          \* DisplayQueue._stop: the event is set
  dq_worker,        \* DisplayQueue.thread: where the worker is in _worker
  dq_held,          \* the command the worker took from the queue
  dq_stopper,       \* where the caller of DisplayQueue.stop is
  dq_log,           \* history: the commands put on the queue, in order
  dq_executed,      \* history: the commands the worker carried out, in order
  now,              \* time.time()
  published,        \* what the last operation wrote to the socket, in order
  display,          \* what the last operation sent to the display, in order
  screen,           \* what the display shows: the last DISP command sent
  lastOp            \* history: the last operation, its inputs and its calls

vars == <<digit_queue, timer, timers, last_digit_time, registry, clean,
          current_channel,
          last_activation, active_effects, cleanup_timers, ctimers, effects,
          trig, last_event, last_event_time,
          dq_queue, dq_stop, dq_worker, dq_held, dq_stopper, dq_log, dq_executed,
          now, published, display, screen, lastOp>>

dialerVars == <<digit_queue, timer, timers, last_digit_time, registry, clean>>
gateVars == <<last_activation, active_effects, cleanup_timers, ctimers, effects>>
debounceVars == <<last_event, last_event_time>>
queueVars == <<dq_queue, dq_stop, dq_worker, dq_held, dq_stopper, dq_log,
               dq_executed>>
hostVars == <<debounceVars, queueVars>>

(***************************************************************************)
(* Pure helpers.                                                           *)
(***************************************************************************)
\* A mutant of ParseInt: a leading zero makes the literal octal, as in
\* int(s, 0) of old.
RECURSIVE ParseBase(_, _)
ParseBase(s, base) ==
  IF s = <<>> THEN 0
  ELSE base * ParseBase(SubSeq(s, 1, Len(s) - 1), base) + s[Len(s)]

ParseIntOctal(s) ==
  IF Len(s) > 1 /\ s[1] = 0 THEN ParseBase(s, 8) ELSE ParseBase(s, 10)

RECURSIVE ParseInt(_)
ParseInt(s) ==
  IF s = <<>> THEN 0
  ELSE 10 * ParseInt(SubSeq(s, 1, Len(s) - 1)) + s[Len(s)]

RECURSIVE DecimalDigits(_)
DecimalDigits(n) ==
  IF n < 10 THEN <<n>> ELSE Append(DecimalDigits(n \div 10), n % 10)

First4(s) == SubSeq(s, 1, IF Len(s) < 4 THEN Len(s) ELSE 4)

ShowNumber(n) == [cmd |-> "DISP:num", arg |-> First4(DecimalDigits(n))]
ShowSequence(s) == [cmd |-> "DISP:num", arg |-> First4(s)]
ShowText(t) == [cmd |-> t, arg |-> <<>>]

IsValid(channel) == \E i \in 1..Len(VALID_CHANNELS) : VALID_CHANNELS[i] = channel

\* A mutant of IndexOf: a channel that is not in the list counts as the
\* last entry.
IndexOfOrLast(channel) ==
  IF IsValid(channel)
  THEN (CHOOSE i \in 1..Len(VALID_CHANNELS) : VALID_CHANNELS[i] = channel) - 1
  ELSE Len(VALID_CHANNELS) - 1

IndexOf(channel) ==
  IF IsValid(channel)
  THEN (CHOOSE i \in 1..Len(VALID_CHANNELS) : VALID_CHANNELS[i] = channel) - 1
  ELSE 0


(***************************************************************************)
(* threading.Timer objects.                                                *)
(***************************************************************************)
FreeTimer ==
  [state |-> "free", cancelled |-> FALSE, deadline |-> 0, key |-> <<>>,
   cb |-> "none"]

\* Timers whose thread still exists: waiting, or about to run the callback.
Outstanding(tm) == {i \in DOMAIN tm : tm[i].state # "free"}

\* Timers that are armed and neither cancelled nor completed.
Live(tm) == {i \in DOMAIN tm : tm[i].state # "free" /\ ~tm[i].cancelled}

\* Timer.cancel(): stops a timer that is still waiting; sets only the
\* finished flag of one whose callback is already on its way.
TimerCancel(tm, h) ==
  IF tm[h].state = "armed" THEN [tm EXCEPT ![h] = FreeTimer]
  ELSE IF tm[h].state = "dispatched" THEN [tm EXCEPT ![h].cancelled = TRUE]
  ELSE tm

\* A mutant of CancelTimer: the timer is left running.
CancelTimerSkipped(tm, h) == tm

\* ChannelDialer._cancel_timer
CancelTimer(tm, h) == IF h # None THEN TimerCancel(tm, h) ELSE tm

HasFreeSlot(tm) == \E i \in DOMAIN tm : tm[i].state = "free"
FreeSlot(tm) ==
  CHOOSE i \in DOMAIN tm :
    tm[i].state = "free" /\ \A j \in DOMAIN tm : tm[j].state = "free" => i <= j

\* Timer.run: finished.wait(interval) has timed out at time t
TimerDue(tm, i, t) == tm[i].state = "armed" /\ t >= tm[i].deadline

\* A mutant of TimerStart: the timer is created and never started.
TimerNotStarted(tm, i, t, interval, key, cb) == tm

\* threading.Timer(interval, cb, args=[key]).start() at time t
TimerStart(tm, i, t, interval, key, cb) ==
  [tm EXCEPT ![i] = [state |-> "armed", cancelled |-> FALSE,
                     deadline |-> t + interval, key |-> key, cb |-> cb]]

(***************************************************************************)
(* ChannelDialer.tune_to_channel and ChannelDialer._change_channel.        *)
(***************************************************************************)
PublishDirect(channel, is_valid, cur) ==
  [command |-> "direct", channel |-> channel, valid |-> is_valid,
   fallback_channel |-> IF ~is_valid THEN cur ELSE None]

\* ChannelDialer._show_error
\* A mutant of ShowError: the error text stays on the display.
ShowErrorStays(error_text, cur) == <<ShowText(error_text)>>

ShowError(error_text, cur) == <<ShowText(error_text), ShowNumber(cur)>>

\* A mutant of TuneToChannel: the channel is taken over without validation.
TuneToChannelUnchecked(cur, channel) ==
  [cur |-> channel,
   disp |-> <<ShowNumber(channel)>>,
   pub |-> <<PublishDirect(channel, IsValid(channel), channel)>>]

TuneToChannel(cur, channel) ==
  IF IsValid(channel)
  THEN [cur |-> channel,
        disp |-> <<ShowNumber(channel)>>,
        pub |-> <<PublishDirect(channel, TRUE, channel)>>]
  ELSE [cur |-> cur,
        disp |-> ShowError("DISP:NOPE", cur),
        pub |-> <<PublishDirect(channel, FALSE, cur)>>]

\* A mutant of NewIndex: the index stops at both ends of the list.
ClampIndex(idx, direction) ==
  IF idx + direction < 0 THEN 0
  ELSE IF idx + direction >= Len(VALID_CHANNELS) THEN Len(VALID_CHANNELS) - 1
  ELSE idx + direction

\* new_idx = (current_idx + direction) % len(VALID_CHANNELS)
NewIndex(idx, direction) == (idx + direction) % Len(VALID_CHANNELS)

\* A mutant of NewChannel: the channel number is stepped, not the index.
NewChannelByNumber(cur, direction) == cur + direction

NewChannel(cur, direction) == VALID_CHANNELS[NewIndex(IndexOf(cur), direction) + 1]

(***************************************************************************)
(* EasterEggCooldownManager and EasterEggRegistry.trigger_easter_egg.      *)
(***************************************************************************)
LastTime(la, k) == IF la[k] = NoTime THEN 0 ELSE la[k]

\* A mutant of CanActivate: the cooldown must be exceeded, not just reached.
CanActivateStrict(la, k, cooldown_duration, t) ==
  t - LastTime(la, k) > cooldown_duration

\* EasterEggCooldownManager.can_activate at time t
CanActivate(la, k, cooldown_duration, t) ==
  t - LastTime(la, k) >= cooldown_duration

\* EasterEggCooldownManager.is_effect_active
IsEffectActive(ae, k) == ae[k] # NoTime

\* A mutant of TimeUntilAvailable: the remaining time is not cut off at 0.
TimeUntilAvailableSigned(la, k, cooldown_duration, t) ==
  cooldown_duration - (t - LastTime(la, k))

TimeUntilAvailable(la, k, cooldown_duration, t) ==
  LET remaining == cooldown_duration - (t - LastTime(la, k))
  IN IF remaining > 0 THEN remaining ELSE 0

\* EasterEggCooldownManager.get_effect_time_remaining
EffectTimeRemaining(ae, k, t) ==
  IF ae[k] = NoTime THEN 0
  ELSE IF ae[k] - t > 0 THEN ae[k] - t ELSE 0

\* EasterEggRegistry.get_status_info at time t
StatusInfo(la, ae, t) ==
  [k \in Keys |->
     LET remaining_cooldown == TimeUntilAvailable(la, k, Registry[k].cooldown, t)
     IN [cooldown_remaining |-> remaining_cooldown,
         effect_remaining |-> EffectTimeRemaining(ae, k, t),
         is_active |-> IsEffectActive(ae, k),
         available |-> remaining_cooldown = 0]]

\* A mutant of IsEasterEgg: a sequence matches only when no longer
\* registered sequence starts with it.
IsEasterEggLongest(sequence) ==
  /\ sequence \in registry
  /\ \A l \in registry :
       ~(Len(l) > Len(sequence) /\ SubSeq(l, 1, Len(sequence)) = sequence)

\* A mutant of IsEasterEgg: a sequence that ends with a registered key is
\* matched too.
IsEasterEggSuffix(sequence) ==
  \E k \in registry :
    /\ Len(k) <= Len(sequence)
    /\ SubSeq(sequence, Len(sequence) - Len(k) + 1, Len(sequence)) = k

\* A mutant of IsEasterEgg: only the keys registered at start are matched.
IsEasterEggAtStart(sequence) == sequence \in Keys

\* EasterEggRegistry.is_easter_egg
IsEasterEgg(sequence) == sequence \in registry

\* The MMSS text of a trigger that is still on cooldown.
CooldownText(remaining) ==
  LET minutes == remaining \div 60
      seconds == remaining % 60
  IN [cmd |-> "DISP:MMSS",
      arg |-> <<minutes \div 10, minutes % 10, seconds \div 10, seconds % 10>>]

\* The state a handler works on, and what it has emitted and called so far.
Ctx ==
  [cur |-> current_channel, la |-> last_activation, ae |-> active_effects,
   ct |-> cleanup_timers, ctm |-> ctimers, eff |-> effects,
   disp |-> <<>>, pub |-> <<>>, tuned |-> <<>>, fired |-> <<>>,
   blocked |-> <<>>, failed |-> FALSE, cleaned |-> <<>>, ret |-> FALSE,
   held |-> FALSE, bare |-> FALSE, stuck |-> FALSE, inside |-> FALSE,
   started |-> <<>>, locks |-> {}, nested |-> {}, relock |-> FALSE]

\* The display commands that drive the LEDs and leave the digits alone.
LedCommands == {"LED:off", "LED:nack", "LED:ack", "LED:red-blue 10"}

\* What the display shows after the commands sent, in order: the last one
\* that was not an LED command, or what it showed before.
Screen(shown, sent) ==
  LET texts == {i \in 1..Len(sent) : sent[i].cmd \notin LedCommands}
  IN IF texts = {} THEN shown
     ELSE sent[CHOOSE i \in texts : \A j \in texts : j <= i]

\* A thread takes the lock l (the dialer's, the gate's or the display's, all
\* threading.Lock): nested records which locks it held while asking, relock
\* that it asked for one it holds.
Take(X, l) ==
  [X EXCEPT !.nested = @ \cup {<<h, l>> : h \in X.locks},
            !.relock = @ \/ l \in X.locks,
            !.locks = @ \cup {l}]

Drop(X, l) == [X EXCEPT !.locks = @ \ {l}]

\* ChannelDialer._safe_lock: entering "with self._safe_lock()"
SafeLock(X) == Take(X, "dialer")

\* A mutant of Release: the mutex is still held after the with block.
KeepLock(X) == X

\* EasterEggCooldownManager: leaving "with self.lock"
Release(X) == Drop([X EXCEPT !.held = FALSE], "gate")

\* entering "with self.lock"; a threading.Lock is not reentrant, so the
\* thread that holds it and asks again waits for ever (stuck)
Acquire(X) ==
  Take(IF X.held THEN [X EXCEPT !.stuck = TRUE] ELSE [X EXCEPT !.held = TRUE],
       "gate")

\* an access of last_activation, active_effects or cleanup_timers; bare
\* records one made without the mutex
Access(X) == IF X.held THEN X ELSE [X EXCEPT !.bare = TRUE]

\* an action or cleanup callback starts; inside records one started while
\* the mutex is held
Callback(X) == IF X.held THEN [X EXCEPT !.inside = TRUE] ELSE X

\* can_activate, get_time_until_available: a read under the mutex
XRead(X) == Release(Access(Acquire(X)))

\* DisplayController.send_display_command for each entry, under the
\* display's lock
XShow(X, entries) ==
  IF entries = <<>> THEN X
  ELSE Drop([Take(X, "display") EXCEPT !.disp = @ \o entries], "display")

\* A mutant of XTune: tune_to_channel takes the dialer's lock itself.
XTuneLocked(X, channel) ==
  LET r == TuneToChannel(X.cur, channel)
  IN Drop([XShow(Take(X, "dialer"), r.disp) EXCEPT
             !.cur = r.cur, !.pub = @ \o r.pub, !.tuned = Append(@, channel)],
          "dialer")

XTune(X, channel) ==
  LET r == TuneToChannel(X.cur, channel)
  IN [XShow(X, r.disp) EXCEPT !.cur = r.cur, !.pub = @ \o r.pub,
                              !.tuned = Append(@, channel)]

\* A mutant of XCleanupAll: the cooldowns are wiped with the effects.
XCleanupAllForgets(X0) ==
  [X0 EXCEPT
     !.ctm = [i \in DOMAIN X0.ctm |->
                IF i \in {X0.ct[k] : k \in Keys} \ {None}
                THEN TimerCancel(X0.ctm, i)[i] ELSE X0.ctm[i]],
     !.ct = [k \in Keys |-> None],
     !.ae = [k \in Keys |-> NoTime],
     !.la = [k \in Keys |-> NoTime]]

\* A mutant of XCleanupAll: the timers are cancelled and forgotten, the
\* expiry times are kept.
XCleanupAllTimersOnly(X0) ==
  [X0 EXCEPT
     !.ctm = [i \in DOMAIN X0.ctm |->
                IF i \in {X0.ct[k] : k \in Keys} \ {None}
                THEN TimerCancel(X0.ctm, i)[i] ELSE X0.ctm[i]],
     !.ct = [k \in Keys |-> None]]

\* EasterEggCooldownManager.cleanup_all
XCleanupAll(X0) ==
  LET X == Access(Acquire(X0))
      held == {X.ct[k] : k \in Keys} \ {None}
  IN Release([X EXCEPT
        !.ctm = [i \in DOMAIN X.ctm |->
                   IF i \in held THEN TimerCancel(X.ctm, i)[i] ELSE X.ctm[i]],
        !.ct = [k \in Keys |-> None],
        !.ae = [k \in Keys |-> NoTime],
        !.eff = [k \in Keys |->
                   IF X.ct[k] # None
                   THEN [X.eff[k] EXCEPT !.owed = @ - 1] ELSE X.eff[k]]])

\* A mutant of XForceCleanup: every key's effect is cleaned up.
XForceCleanupEveryKey(X0, k) == XCleanupAll(X0)

\* force_cleanup that forgets the key's timer without cancelling it
XForceCleanupNoCancel(X0, k) ==
  [X0 EXCEPT !.ct[k] = None, !.ae[k] = NoTime]

\* EasterEggCooldownManager.force_cleanup
XForceCleanup(X0, k) ==
  LET X == Access(Acquire(X0))
  IN Release(IF X.ct[k] # None
             THEN [X EXCEPT !.ctm = TimerCancel(X.ctm, X.ct[k]), !.ct[k] = None,
                            !.ae[k] = NoTime, !.eff[k].owed = @ - 1]
             ELSE [X EXCEPT !.ae[k] = NoTime])

\* A mutant of HasEffect: a duration is enough.
HasEffectByDuration(effect_duration, cleanup_callback) == effect_duration # 0

HasEffect(effect_duration, cleanup_callback) ==
  effect_duration # 0 /\ cleanup_callback # "none"

\* The timer table after activate_easter_egg cancelled the key's old timer.
AfterCancel(X, k) == IF X.ct[k] # None THEN TimerCancel(X.ctm, X.ct[k]) ELSE X.ctm

\* A mutant of XActivate: a key still on cooldown is left alone.
XActivateChecked(X0, k, cooldown_duration, effect_duration, cleanup_callback, t) ==
  IF CanActivate(X0.la, k, cooldown_duration, t)
  THEN [X0 EXCEPT !.la[k] = t]
  ELSE X0

\* EasterEggCooldownManager.activate_easter_egg at time t
XActivate(X0, k, cooldown_duration, effect_duration, cleanup_callback, t) ==
  LET X == Access(Acquire(X0))
      X1 == [X EXCEPT !.la[k] = t, !.eff[k].activated_at = t]
  IN Release(
     IF HasEffect(effect_duration, cleanup_callback)
     THEN LET tm1 == AfterCancel(X1, k)
              i == FreeSlot(tm1)
          IN [X1 EXCEPT
                !.ae[k] = t + effect_duration,
                !.ctm = TimerStart(tm1, i, t, effect_duration, k, cleanup_callback),
                !.ct[k] = i,
                !.eff[k].owed = IF X.ct[k] # None THEN @ ELSE @ + 1]
     ELSE X1)

\* The bound of the model on activate_easter_egg: a timer slot is free.
CanArm(X, k, effect_duration, cleanup_callback) ==
  HasEffect(effect_duration, cleanup_callback) => HasFreeSlot(AfterCancel(X, k))

\* EasterEggActions
XAction(X0, action) ==
  LET X == Callback(X0)
  IN IF action = "full_reset"
     THEN XTune(XShow(XCleanupAll(X), <<ShowText("LED:off")>>), 1)
     ELSE IF action = "emergency_mode"
     THEN XShow(X, <<ShowText("LED:red-blue 10"), ShowText("DISP:COPS")>>)
     ELSE X

\* A mutant of XTriggerBlocked: the refused attempt restarts the cooldown.
XTriggerBlockedRestarts(X0, sequence, t) ==
  [X0 EXCEPT !.la[sequence] = t, !.blocked = Append(@, sequence), !.ret = FALSE]

\* trigger_easter_egg, the branch of a key on cooldown: LED:nack, the
\* remaining time, return False
XTriggerBlocked(X0, sequence, t) ==
  LET config == Registry[sequence]
      X == XRead(X0)
  IN [XShow(X, <<ShowText("LED:nack"),
                 CooldownText(TimeUntilAvailable(X.la, sequence,
                                                 config.cooldown, t))>>)
        EXCEPT !.blocked = Append(@, sequence), !.ret = FALSE]

\* A mutant of XActionCaught: a failed action undoes the activation.
XActionRollsBack(X, action, ok) ==
  IF ok THEN XAction(X, action)
  ELSE [X EXCEPT !.failed = TRUE, !.la = last_activation,
                 !.ae = active_effects, !.ct = cleanup_timers, !.ctm = ctimers]

\* config["action"]() inside trigger_easter_egg's try: the action runs
\* (ok), or raises before it has changed anything and the failure is caught
XActionCaught(X, action, ok) ==
  IF ok THEN XAction(X, action) ELSE [X EXCEPT !.failed = TRUE]

\* What the manager and the display hold at the moment config["action"]()
\* is called for the key at time t: the commands sent so far, whether the
\* activation is on record, whether the effect's timer is armed, whether
\* can_activate would still let the key through.
AtActionStart(X, sequence, t) ==
  LET config == Registry[sequence]
  IN [key |-> sequence,
      shown |-> X.disp,
      recorded |-> X.la[sequence] = t,
      armed |-> /\ X.ct[sequence] # None
                /\ X.ct[sequence] \in Live(X.ctm)
                /\ X.ae[sequence] = t + config.duration,
      open |-> CanActivate(X.la, sequence, config.cooldown, t)]

\* The call of config["action"]() for the key at time t
XStartAction(X, sequence, t) ==
  [X EXCEPT !.fired = Append(@, sequence),
            !.started = Append(@, AtActionStart(X, sequence, t)),
            !.eff[sequence].prev_action_at = X.eff[sequence].action_at,
            !.eff[sequence].action_at = t]

\* A mutant of XTriggerFire: the action runs before the activation is
\* recorded.
XTriggerFireActsFirst(X, sequence, t, ok) ==
  LET config == Registry[sequence]
      X1 == XShow(X, <<ShowText(config.display)>>)
      X2 == XActionCaught(XStartAction(X1, sequence, t), config.action, ok)
      X3 == XActivate(X2, sequence, config.cooldown, config.duration,
                      config.cleanup, t)
  IN [X3 EXCEPT !.ret = TRUE]

\* trigger_easter_egg past the cooldown check: the message, the activation,
\* the action, return True
XTriggerFire(X, sequence, t, ok) ==
  LET config == Registry[sequence]
      X1 == XShow(X, <<ShowText(config.display)>>)
      X2 == XActivate(X1, sequence, config.cooldown, config.duration,
                      config.cleanup, t)
      X3 == XStartAction(X2, sequence, t)
  IN [XActionCaught(X3, config.action, ok) EXCEPT !.ret = TRUE]

\* EasterEggRegistry.trigger_easter_egg at time t, with no other thread
\* between its cooldown check and its activation
XTrigger(X0, sequence, t, ok) ==
  LET X == XRead(X0)
  IN IF ~CanActivate(X.la, sequence, Registry[sequence].cooldown, t)
     THEN XTriggerBlocked(X, sequence, t)
     ELSE XTriggerFire(X, sequence, t, ok)

CanTrigger(X, sequence) ==
  sequence \in Keys
    => LET config == Registry[sequence]
       IN CanArm(X, sequence, config.duration, config.cleanup)

\* An easter egg added by add_custom_easter_egg: its display text, then
\* its action, which runs (ok) or raises and is caught.
XCustomEgg(X, sequence, ok) ==
  [XShow(X, <<ShowText("DISP:EGG")>>) EXCEPT
     !.fired = Append(@, sequence), !.failed = ~ok]

(***************************************************************************)
(* ChannelDialer: add_digit, clear_queue, _process_channel.                *)
(***************************************************************************)
\* The dialer runs a matched key through the registry's trigger, which
\* shows the key's message and applies its cooldown.
RunEasterEgg(X, sequence, ok) ==
  IF sequence \in Keys THEN XTrigger(X, sequence, now, ok)
  ELSE XCustomEgg(X, sequence, ok)

\* A mutant of ExecuteEasterEgg: it returns what the trigger returned, so
\* a trigger blocked by its cooldown is reported as no match.
ExecuteEasterEggByTrigger(X, sequence, ok) ==
  IF ~IsEasterEgg(sequence) THEN [X EXCEPT !.ret = FALSE]
  ELSE LET X1 == RunEasterEgg(X, sequence, ok)
       IN XShow(X1, <<ShowNumber(X1.cur)>>)

\* ChannelDialer._execute_easter_egg: False when the sequence is no easter
\* egg; otherwise the egg is triggered through the registry, the current
\* channel is shown again, and True is returned whatever the trigger did.
ExecuteEasterEgg(X, sequence, ok) ==
  IF ~IsEasterEgg(sequence) THEN [X EXCEPT !.ret = FALSE]
  ELSE LET X1 == RunEasterEgg(X, sequence, ok)
       IN [XShow(X1, <<ShowNumber(X1.cur)>>) EXCEPT !.ret = TRUE]

Op(name) ==
  [op |-> name, buf |-> <<>>, t |-> None, cancelled |-> FALSE, clean |-> FALSE,
   prev |-> current_channel, handle |-> timer, armed |-> None, tuned |-> <<>>,
   fired |-> <<>>, blocked |-> <<>>, failed |-> FALSE, afterClear |-> FALSE,
   live |-> {}, cleaned |-> <<>>, wiped |-> FALSE,
   held |-> FALSE, bare |-> FALSE, stuck |-> FALSE, inside |-> FALSE,
   early |-> FALSE, started |-> <<>>, event |-> "None", ret |-> FALSE,
   both |-> FALSE, nested |-> {}, relock |-> FALSE]

Called(o, X) ==
  [o EXCEPT !.tuned = X.tuned, !.fired = X.fired, !.blocked = X.blocked,
            !.failed = X.failed, !.cleaned = X.cleaned,
            !.held = X.held, !.bare = X.bare, !.stuck = X.stuck,
            !.inside = X.inside, !.started = X.started,
            !.nested = X.nested, !.relock = X.relock]

\* What the action of a matched key may do: run, or raise.
ActionOutcomes(sequence) == IF IsEasterEgg(sequence) THEN BOOLEAN ELSE {TRUE}

\* The variables a handler's context is written back to.
Commit(X) ==
  /\ current_channel' = X.cur
  /\ last_activation' = X.la
  /\ active_effects' = X.ae
  /\ cleanup_timers' = X.ct
  /\ ctimers' = X.ctm
  /\ effects' = X.eff
  /\ published' = X.pub
  /\ display' = X.disp
  /\ screen' = Screen(screen, X.disp)

\* ChannelDialer.add_digit(d)
AddDigit(d) ==
  /\ Len(digit_queue) < MaxLen
  /\ \E ok \in ActionOutcomes(Append(digit_queue, d)) :
     LET current_sequence == Append(digit_queue, d)
         tm1 == CancelTimer(timers, timer)
         X0 == XShow(SafeLock(Ctx), <<ShowSequence(current_sequence)>>)
         X1 == ExecuteEasterEgg(X0, current_sequence, ok)
     IN /\ IsEasterEgg(current_sequence) => CanTrigger(X0, current_sequence)
        /\ last_digit_time' = now
        /\ clean' = IF X1.ret THEN FALSE
                    ELSE IF digit_queue = <<>> THEN TRUE
                    ELSE clean /\ now - last_digit_time < DigitTimeout
        /\ IF X1.ret
           THEN /\ digit_queue' = <<>>
                /\ timers' = tm1
                /\ timer' = None
                /\ lastOp' = Called([Op("add_digit") EXCEPT
                                       !.buf = current_sequence], X1)
           ELSE /\ HasFreeSlot(tm1)
                /\ digit_queue' = current_sequence
                /\ timer' = FreeSlot(tm1)
                /\ timers' = TimerStart(tm1, FreeSlot(tm1), now, DigitTimeout,
                                        <<>>, "_process_channel")
                /\ lastOp' = Called([Op("add_digit") EXCEPT
                                       !.buf = current_sequence,
                                       !.armed = FreeSlot(tm1)], X1)
        /\ Commit(X1)
  /\ UNCHANGED <<registry, trig, hostVars, now>>

\* ChannelDialer.clear_queue
ClearQueue ==
  /\ digit_queue' = <<>>
  /\ timers' = CancelTimer(timers, timer)
  /\ timer' = None
  /\ Commit(XShow(SafeLock(Ctx), <<ShowNumber(current_channel)>>))
  /\ lastOp' = [Called(Op("clear_queue"),
                       XShow(SafeLock(Ctx), <<ShowNumber(current_channel)>>))
                  EXCEPT
                  !.buf = digit_queue, !.afterClear = (lastOp.op = "clear_queue"),
                  !.live = Live(timers)]
  /\ clean' = FALSE
  /\ UNCHANGED <<last_digit_time, registry, trig, hostVars, now>>

\* The timer thread of timer t ends its wait and finds it was not cancelled.
TimerFire(t) ==
  /\ timers[t].state = "armed"
  /\ TimerDue(timers, t, now)
  /\ timers' = [timers EXCEPT ![t].state = "dispatched", ![t].deadline = 0]
  /\ published' = <<>>
  /\ display' = <<>>
  /\ screen' = screen
  /\ lastOp' = [Op("timer_fire") EXCEPT !.t = t]
  /\ UNCHANGED <<digit_queue, timer, last_digit_time, registry, clean,
                 current_channel, gateVars, trig, hostVars, now>>

\* A mutant of QueueIsEmpty: the callback does not look at the queue.
QueueNotChecked(queue) == FALSE

\* _process_channel: if not self.digit_queue
QueueIsEmpty(queue) == queue = <<>>

\* ChannelDialer._process_channel, the callback of timer t, once it has the lock
ProcessChannel(t) ==
  /\ timers[t].state = "dispatched"
  /\ LET o == [Op("_process_channel") EXCEPT
                 !.t = t, !.buf = digit_queue,
                 !.cancelled = timers[t].cancelled,
                 !.clean = clean,
                 !.afterClear = (lastOp.op = "clear_queue")]
     IN IF QueueIsEmpty(digit_queue)
        THEN /\ Commit(Ctx)
             /\ lastOp' = o
             /\ UNCHANGED <<digit_queue, timer, clean>>
        ELSE \E ok \in ActionOutcomes(digit_queue) :
             LET X1 == ExecuteEasterEgg(SafeLock(Ctx), digit_queue, ok)
                 X2 == IF X1.ret THEN X1 ELSE XTune(X1, ParseInt(digit_queue))
             IN /\ IsEasterEgg(digit_queue) => CanTrigger(Ctx, digit_queue)
                /\ Commit(X2)
                /\ digit_queue' = <<>>
                /\ timer' = None
                /\ clean' = FALSE
                /\ lastOp' = Called(o, X2)
  /\ timers' = [timers EXCEPT ![t] = FreeTimer]
  /\ UNCHANGED <<last_digit_time, registry, trig, hostVars, now>>

\* ChannelDialer._change_channel(direction)
ChangeChannel(direction) ==
  LET new_channel == NewChannel(current_channel, direction)
  IN /\ current_channel' = new_channel
     /\ display' = <<ShowText(IF direction > 0 THEN "DISP:UP" ELSE "DISP:Dn"),
                     ShowNumber(new_channel)>>
     /\ screen' = ShowNumber(new_channel)
     /\ published' = <<[command |-> IF direction > 0 THEN "up" ELSE "down",
                        channel |-> new_channel, valid |-> TRUE,
                        fallback_channel |-> None]>>
     /\ lastOp' = Op(IF direction > 0 THEN "channel_up" ELSE "channel_down")
     /\ UNCHANGED <<dialerVars, gateVars, trig, hostVars, now>>

ChannelUp == ChangeChannel(1)
ChannelDown == ChangeChannel(-1)

\* One second passes, up to the last second of the model.
Advance(limit) ==
  /\ now < StartTime + limit
  /\ now' = now + 1
  /\ published' = <<>>
  /\ display' = <<>>
  /\ screen' = screen
  /\ lastOp' = Op("tick")
  /\ UNCHANGED <<dialerVars, current_channel, gateVars, trig, hostVars>>

Tick == Advance(MaxTime)

\* the shorter clock of the specifications around the gate
GateTick == Advance(MaxGateTime)

NoEffects ==
  [owed |-> 0, activated_at |-> NoTime, action_at |-> NoTime,
   prev_action_at |-> NoTime]

\* No command in the worker's hands.
NoCommand == [cmd |-> "none", value |-> 0, id |-> 0, late |-> FALSE]

\* The state after construction, with the given sequences registered.
InitWith(sequences) ==
  /\ digit_queue = <<>>
  /\ timer = None
  /\ timers = [i \in TimerIds |-> FreeTimer]
  /\ last_digit_time = 0
  /\ registry = sequences
  /\ clean = FALSE
  /\ current_channel = VALID_CHANNELS[1]
  /\ last_activation = [k \in Keys |-> NoTime]
  /\ active_effects = [k \in Keys |-> NoTime]
  /\ cleanup_timers = [k \in Keys |-> None]
  /\ ctimers = [i \in CleanupTimerIds |-> FreeTimer]
  /\ effects = [k \in Keys |-> NoEffects]
  /\ trig = [th \in Threads |-> [pc |-> "idle", key |-> <<>>]]
  /\ last_event = "None"
  /\ last_event_time = 0
  /\ dq_queue = <<>>
  /\ dq_stop = FALSE
  /\ dq_worker = "new"
  /\ dq_held = NoCommand
  /\ dq_stopper = "idle"
  /\ dq_log = <<>>
  /\ dq_executed = <<>>
  /\ now = StartTime
  /\ published = <<>>
  /\ display = <<>>
  /\ screen = ShowNumber(VALID_CHANNELS[1])
  /\ lastOp = Op("init")

Init == InitWith(Keys)

Next ==
  \/ \E d \in Digits : AddDigit(d)
  \/ ClearQueue
  \/ \E t \in TimerIds : TimerFire(t)
  \/ \E t \in TimerIds : ProcessChannel(t)
  \/ Tick

Spec == Init /\ [][Next]_vars

(***************************************************************************)
(* The dialer with a registry in which one key starts another: a custom    *)
(* key "00" was added to the registry before any digit is typed.           *)
(***************************************************************************)
KeyPrefix == <<0, 0>>

InitPrefix == InitWith(Keys \cup {KeyPrefix})

SpecPrefix == InitPrefix /\ [][Next]_vars

(***************************************************************************)
(* The dialer with a registry that grows: add_custom_easter_egg may        *)
(* register the key "21" at any moment, also while digits are waiting.     *)
(***************************************************************************)
KeyLate == <<2, 1>>
CustomDigits == {1, 2}

\* ChannelDialer.add_custom_easter_egg(sequence, ...)
AddCustomEasterEgg(sequence) ==
  /\ registry' = registry \cup {sequence}
  /\ published' = <<>>
  /\ display' = <<>>
  /\ screen' = screen
  /\ lastOp' = [Op("add_custom_easter_egg") EXCEPT !.buf = sequence]
  /\ UNCHANGED <<digit_queue, timer, timers, last_digit_time, clean,
                 current_channel, gateVars, trig, hostVars, now>>

NextCustom ==
  \/ \E d \in CustomDigits : AddDigit(d)
  \/ ClearQueue
  \/ \E t \in TimerIds : TimerFire(t)
  \/ \E t \in TimerIds : ProcessChannel(t)
  \/ AddCustomEasterEgg(KeyLate)
  \/ Tick

SpecCustom == Init /\ [][NextCustom]_vars

(***************************************************************************)
(* The dialer with the digits of the key "911": the key typed alone, and   *)
(* typed after another digit.                                              *)
(***************************************************************************)
EmergencyDigits == {1, 9}

NextEmergency ==
  \/ \E d \in EmergencyDigits : AddDigit(d)
  \/ ClearQueue
  \/ \E t \in TimerIds : TimerFire(t)
  \/ \E t \in TimerIds : ProcessChannel(t)
  \/ Tick

SpecEmergency == Init /\ [][NextEmergency]_vars

(***************************************************************************)
(* The dialer behind the remote: digits, and the CHANNEL_UP and            *)
(* CHANNEL_DOWN buttons, whose handlers call clear_queue and then          *)
(* channel_up or channel_down.  Digits come from the thread that runs the  *)
(* handler, so between the two calls only timer callbacks can run, and     *)
(* they find the queue empty.                                              *)
(***************************************************************************)
\* IRRemoteMapper._handle_channel_up (direction 1) and _handle_channel_down
\* (direction -1)
HandleChannel(direction) ==
  LET new_channel == NewChannel(current_channel, direction)
  IN /\ digit_queue' = <<>>
     /\ timers' = CancelTimer(timers, timer)
     /\ timer' = None
     /\ clean' = FALSE
     /\ current_channel' = new_channel
     /\ display' = <<ShowNumber(current_channel),
                     ShowText(IF direction > 0 THEN "DISP:UP" ELSE "DISP:Dn"),
                     ShowNumber(new_channel)>>
     /\ screen' = ShowNumber(new_channel)
     /\ published' = <<[command |-> IF direction > 0 THEN "up" ELSE "down",
                        channel |-> new_channel, valid |-> TRUE,
                        fallback_channel |-> None]>>
     /\ lastOp' = [Op(IF direction > 0 THEN "CHANNEL_UP" ELSE "CHANNEL_DOWN")
                     EXCEPT !.buf = digit_queue, !.live = Live(timers),
                            !.nested = {<<"dialer", "display">>}]
     /\ UNCHANGED <<last_digit_time, registry, gateVars, trig, hostVars, now>>

NextRemote ==
  \/ \E d \in CustomDigits : AddDigit(d)
  \/ HandleChannel(1)
  \/ HandleChannel(-1)
  \/ \E t \in TimerIds : TimerFire(t)
  \/ \E t \in TimerIds : ProcessChannel(t)
  \/ Tick

SpecRemote == Init /\ [][NextRemote]_vars

(***************************************************************************)
(* The debounce of incoming remote events.  The clock counts in units of   *)
(* which the debounce time is a whole number.                              *)
(***************************************************************************)
Events == {"DIGIT_0", "DIGIT_1", "CHANNEL_UP", "CHANNEL_DOWN", "MUTE", "POWER"}

\* A mutant of ShouldProcess: the debounce time must be exceeded.
ShouldProcessStrict(event_name, current_time) ==
  event_name # last_event \/ (current_time - last_event_time) > Debounce

\* should_process_event: the condition
ShouldProcess(event_name, current_time) ==
  event_name # last_event \/ (current_time - last_event_time) >= Debounce

\* IRRemoteMapperApp.should_process_event(event_name)
ShouldProcessEvent(event_name) ==
  /\ IF ShouldProcess(event_name, now)
     THEN /\ last_event' = event_name
          /\ last_event_time' = now
     ELSE UNCHANGED debounceVars
  /\ published' = <<>>
  /\ display' = <<>>
  /\ screen' = screen
  /\ lastOp' = [Op("should_process_event") EXCEPT
                  !.event = event_name, !.ret = ShouldProcess(event_name, now)]
  /\ UNCHANGED <<dialerVars, current_channel, gateVars, trig, queueVars, now>>

NextDebounce ==
  \/ \E event_name \in Events : ShouldProcessEvent(event_name)
  \/ Tick

SpecDebounce == Init /\ [][NextDebounce]_vars

(***************************************************************************)
(* DisplayQueue: callers put commands on the queue, one worker thread      *)
(* takes them off and carries them out, stop() puts the exit marker and    *)
(* sets the stop event.  stop() is called on a started queue (join raises  *)
(* on a thread that was never started).                                    *)
(***************************************************************************)
\* show_text(text), sleep(seconds) with a good and with a negative time
QueueCommands ==
  {[cmd |-> "text", value |-> 1], [cmd |-> "sleep", value |-> 1],
   [cmd |-> "sleep", value |-> -1]}

ExitCommand == [cmd |-> "__EXIT__", value |-> 0, id |-> 0, late |-> FALSE]

\* A mutant of IsExit: the worker does not know the exit marker.
IsExitNever(command) == FALSE

\* _worker: if cmd == "__EXIT__"
IsExit(command) == command.cmd = "__EXIT__"

\* time.sleep raises ValueError on a negative time, and _worker catches
\* only Empty: the thread ends
Raises(command) == command.cmd = "sleep" /\ command.value < 0

\* _worker: the commands one of its branches carries out; any other is
\* dropped
Known(command) ==
  command.cmd \in {"text", "number", "clear", "brightness", "sleep"}

QueueStep(name) ==
  /\ published' = <<>>
  /\ lastOp' = Op(name)
  /\ UNCHANGED <<dialerVars, current_channel, gateVars, trig, debounceVars, now>>

\* DisplayQueue.start
QueueStart ==
  /\ dq_worker = "new"
  /\ dq_worker' = "loop"
  /\ display' = <<>>
  /\ screen' = screen
  /\ QueueStep("start")
  /\ UNCHANGED <<dq_queue, dq_stop, dq_held, dq_stopper, dq_log, dq_executed>>

\* DisplayQueue.show_text / sleep: queue.put; late marks a command put
\* after stop() was called
QueuePut(command) ==
  /\ Len(dq_log) < MaxCommands
  /\ LET c == [cmd |-> command.cmd, value |-> command.value,
               id |-> Len(dq_log) + 1, late |-> dq_stopper # "idle"]
     IN /\ dq_queue' = Append(dq_queue, c)
        /\ dq_log' = Append(dq_log, c)
  /\ display' = <<>>
  /\ screen' = screen
  /\ QueueStep("put")
  /\ UNCHANGED <<dq_stop, dq_worker, dq_held, dq_stopper, dq_executed>>

\* DisplayQueue.stop: self.queue.put(("__EXIT__", None))
QueueStopPut ==
  /\ dq_stopper = "idle"
  /\ dq_worker # "new"
  /\ dq_stopper' = "put"
  /\ dq_queue' = Append(dq_queue, ExitCommand)
  /\ display' = <<>>
  /\ screen' = screen
  /\ QueueStep("stop")
  /\ UNCHANGED <<dq_stop, dq_worker, dq_held, dq_log, dq_executed>>

\* DisplayQueue.stop: self._stop.set(), then join(timeout=2)
QueueStopSet ==
  /\ dq_stopper = "put"
  /\ dq_stopper' = "set"
  /\ dq_stop' = TRUE
  /\ display' = <<>>
  /\ screen' = screen
  /\ QueueStep("stop")
  /\ UNCHANGED <<dq_queue, dq_worker, dq_held, dq_log, dq_executed>>

\* _worker: while not self._stop.is_set()
WorkerCheck ==
  /\ dq_worker = "loop"
  /\ dq_worker' = IF dq_stop THEN "done" ELSE "get"
  /\ display' = <<>>
  /\ screen' = screen
  /\ QueueStep("_worker")
  /\ UNCHANGED <<dq_queue, dq_stop, dq_held, dq_stopper, dq_log, dq_executed>>

\* _worker: self.queue.get(timeout=1) returns the oldest command
WorkerGet ==
  /\ dq_worker = "get"
  /\ dq_queue # <<>>
  /\ dq_queue' = Tail(dq_queue)
  /\ IF IsExit(Head(dq_queue))
     THEN dq_worker' = "done" /\ dq_held' = NoCommand
     ELSE dq_worker' = "run" /\ dq_held' = Head(dq_queue)
  /\ display' = <<>>
  /\ screen' = screen
  /\ QueueStep("_worker")
  /\ UNCHANGED <<dq_stop, dq_stopper, dq_log, dq_executed>>

\* _worker: self.queue.get(timeout=1) raises Empty; continue
WorkerEmpty ==
  /\ dq_worker = "get"
  /\ dq_queue = <<>>
  /\ dq_worker' = "loop"
  /\ display' = <<>>
  /\ screen' = screen
  /\ QueueStep("_worker")
  /\ UNCHANGED <<dq_queue, dq_stop, dq_held, dq_stopper, dq_log, dq_executed>>

\* _worker: the command is carried out
WorkerRun ==
  /\ dq_worker = "run"
  /\ dq_executed' = IF Known(dq_held) THEN Append(dq_executed, dq_held)
                    ELSE dq_executed
  /\ dq_held' = NoCommand
  /\ dq_worker' = IF Raises(dq_held) THEN "done" ELSE "loop"
  /\ display' = IF dq_held.cmd = "text" THEN <<ShowText("DISP:TEXT")>> ELSE <<>>
  /\ screen' = IF dq_held.cmd = "text" THEN ShowText("DISP:TEXT") ELSE screen
  /\ QueueStep("_worker")
  /\ UNCHANGED <<dq_queue, dq_stop, dq_stopper, dq_log>>

WorkerStep == WorkerCheck \/ WorkerGet \/ WorkerEmpty \/ WorkerRun

NextDisplayQueue ==
  \/ QueueStart
  \/ \E command \in QueueCommands : QueuePut(command)
  \/ QueueStopPut
  \/ QueueStopSet
  \/ WorkerCheck
  \/ WorkerGet
  \/ WorkerEmpty
  \/ WorkerRun

\* The worker thread, once started, keeps being scheduled.
FairWorker == WF_vars(WorkerStep)

SpecDisplayQueue == Init /\ [][NextDisplayQueue]_vars /\ FairWorker

(***************************************************************************)
(* The dialer left alone: input arrives only while the clock of the model  *)
(* can still cover the digit timeout of the timer it arms; the clock runs  *)
(* and every timer thread gets to run.                                     *)
(***************************************************************************)
InputOpen == now + DigitTimeout <= StartTime + MaxTime

\* digits enough for a valid channel, invalid ones and the reset key
QuietDigits == {0, 2}

NextQuiet ==
  \/ \E d \in QuietDigits : InputOpen /\ AddDigit(d)
  \/ InputOpen /\ ClearQueue
  \/ \E t \in TimerIds : TimerFire(t)
  \/ \E t \in TimerIds : ProcessChannel(t)
  \/ Tick

\* What happens without input: time passes and the timer threads run.
Progress ==
  \/ \E t \in TimerIds : TimerFire(t)
  \/ \E t \in TimerIds : ProcessChannel(t)
  \/ Tick

\* as long as time can pass or a timer thread can run, one of them does
FairQuiet == WF_vars(Progress)

SpecQuiet == Init /\ [][NextQuiet]_vars /\ FairQuiet

(***************************************************************************)
(* The channel registry alone: tune_to_channel and set_current_channel     *)
(* called with any number, channel up and channel down, and the special    *)
(* keys triggered by the one thread that owns the dialer.                  *)
(***************************************************************************)
\* ChannelDialer.tune_to_channel(channel)
TuneDirect(channel) ==
  /\ Commit(XTune(Ctx, channel))
  /\ lastOp' = Called(Op("tune_to_channel"), XTune(Ctx, channel))
  /\ UNCHANGED <<dialerVars, trig, hostVars, now>>

\* ChannelDialer.set_current_channel(channel)
SetCurrentChannel(channel) ==
  /\ current_channel' = IF IsValid(channel) THEN channel ELSE current_channel
  /\ display' = IF IsValid(channel) THEN <<ShowNumber(channel)>> ELSE <<>>
  /\ screen' = IF IsValid(channel) THEN ShowNumber(channel) ELSE screen
  /\ published' = <<>>
  /\ lastOp' = [Op("set_current_channel") EXCEPT !.tuned = <<channel>>]
  /\ UNCHANGED <<dialerVars, gateVars, trig, hostVars, now>>

\* The attribute current_channel assigned from outside the dialer, with
\* any number.
AssignCurrentChannel(channel) ==
  /\ current_channel' = channel
  /\ display' = <<>>
  /\ screen' = screen
  /\ published' = <<>>
  /\ lastOp' = [Op("current_channel") EXCEPT !.tuned = <<channel>>]
  /\ UNCHANGED <<dialerVars, gateVars, trig, hostVars, now>>

\* trigger_easter_egg(dialer, k) called by the foreground thread alone
TriggerDirect(k) ==
  /\ CanTrigger(Ctx, k)
  /\ \E ok \in BOOLEAN :
       /\ Commit(XTrigger(Ctx, k, now, ok))
       /\ lastOp' = Called([Op("trigger_easter_egg") EXCEPT !.buf = k],
                           XTrigger(Ctx, k, now, ok))
  /\ UNCHANGED <<dialerVars, trig, hostVars, now>>

NextChannel ==
  \/ \E channel \in 0..MaxChannel : TuneDirect(channel)
  \/ \E channel \in 0..MaxChannel : SetCurrentChannel(channel)
  \/ \E k \in Keys : TriggerDirect(k)
  \/ ChannelUp
  \/ ChannelDown
  \/ GateTick

SpecChannel == Init /\ [][NextChannel]_vars

\* The triggers alone, as the clock runs through the cooldown of "0000".
NextCooldown ==
  \/ \E k \in Keys : TriggerDirect(k)
  \/ GateTick

SpecCooldown == Init /\ [][NextCooldown]_vars

(***************************************************************************)
(* The cooldown manager alone: activate_easter_egg called with any key,    *)
(* duration and cleanup callback, and its cleanup timers.                  *)
(***************************************************************************)
GateCooldowns == {1, 2}
EffectDurations == {0, 1, 2}
CleanupCallbacks == {"none", "_cleanup_emergency_mode"}

\* EasterEggCooldownManager.activate_easter_egg(k, the key's cooldown,
\* effect_duration, cleanup_callback)
Activate(k, effect_duration, cleanup_callback) ==
  /\ CanArm(Ctx, k, effect_duration, cleanup_callback)
  /\ LET X == XActivate(Ctx, k, Registry[k].cooldown, effect_duration,
                        cleanup_callback, now)
     IN /\ Commit(X)
        /\ lastOp' = Called([Op("activate_easter_egg") EXCEPT
                                !.buf = k,
                                !.early = ~CanActivate(last_activation, k,
                                                       Registry[k].cooldown, now),
                                !.both = (effect_duration # 0
                                          /\ cleanup_callback # "none")],
                            X)
  /\ UNCHANGED <<dialerVars, trig, hostVars, now>>

\* The thread of cleanup timer i ends its wait and finds it was not cancelled.
CleanupFire(i) ==
  /\ TimerDue(ctimers, i, now)
  /\ ctimers' = [ctimers EXCEPT ![i].state = "dispatched", ![i].deadline = 0]
  /\ published' = <<>>
  /\ display' = <<>>
  /\ screen' = screen
  /\ lastOp' = [Op("cleanup_fire") EXCEPT !.t = i]
  /\ UNCHANGED <<dialerVars, current_channel, last_activation, active_effects,
                 cleanup_timers, effects, trig, hostVars, now>>

\* EasterEggActions: the cleanup callbacks
XCleanupCallback(X, cleanup_callback) ==
  LET X1 == [Callback(X) EXCEPT !.cleaned = Append(@, cleanup_callback)]
  IN IF cleanup_callback = "_cleanup_emergency_mode"
     THEN XShow(X1, <<ShowText("LED:off")>>)
     ELSE X1

\* EasterEggCooldownManager._cleanup_effect(k, cleanup_callback), the
\* callback of cleanup timer i
CleanupEffect(i) ==
  /\ ctimers[i].state = "dispatched"
  /\ LET k == ctimers[i].key
         X0 == Access(Acquire(Ctx))
         X1 == Release([X0 EXCEPT !.ae[k] = NoTime, !.ct[k] = None,
                                  !.ctm[i] = FreeTimer, !.eff[k].owed = @ - 1])
         X2 == XCleanupCallback(X1, ctimers[i].cb)
     IN /\ Commit(X2)
        /\ lastOp' = [Called(Op("_cleanup_effect"), X2) EXCEPT
                        !.t = i, !.buf = k, !.cancelled = ctimers[i].cancelled,
                        !.wiped = (lastOp.op = "cleanup_all" /\ i \in lastOp.live)]
  /\ UNCHANGED <<dialerVars, trig, hostVars, now>>

\* EasterEggCooldownManager.force_cleanup(k)
ForceCleanup(k) ==
  /\ LET X == XForceCleanup(Ctx, k)
     IN /\ Commit(X)
        /\ lastOp' = [Called(Op("force_cleanup"), X) EXCEPT
                        !.buf = k, !.t = cleanup_timers[k]]
  /\ UNCHANGED <<dialerVars, trig, hostVars, now>>

\* EasterEggCooldownManager.cleanup_all
CleanupAll ==
  /\ LET X == XCleanupAll(Ctx)
     IN /\ Commit(X)
        /\ lastOp' = [Called(Op("cleanup_all"), X) EXCEPT
                        !.live = {cleanup_timers[k] : k \in Keys} \ {None}]
  /\ UNCHANGED <<dialerVars, trig, hostVars, now>>

NextGate ==
  \/ \E k \in Keys, effect_duration \in EffectDurations,
        cleanup_callback \in CleanupCallbacks :
       Activate(k, effect_duration, cleanup_callback)
  \/ \E i \in CleanupTimerIds : CleanupFire(i)
  \/ \E i \in CleanupTimerIds : CleanupEffect(i)
  \/ GateTick

SpecGate == Init /\ [][NextGate]_vars

\* The gate with its manual cleanups: the operations of SpecGate, and
\* force_cleanup and cleanup_all called while cleanup timers are running.
CleanupTick == Advance(MaxCleanupTime)

NextCleanup ==
  \/ \E k \in Keys, effect_duration \in EffectDurations,
        cleanup_callback \in CleanupCallbacks :
       Activate(k, effect_duration, cleanup_callback)
  \/ \E i \in CleanupTimerIds : CleanupFire(i)
  \/ \E i \in CleanupTimerIds : CleanupEffect(i)
  \/ \E k \in Keys : ForceCleanup(k)
  \/ CleanupAll
  \/ CleanupTick

SpecCleanup == Init /\ [][NextCleanup]_vars

\* an effect short enough to expire within the clock of the model
ShortEffect == 1

\* Everything that takes the gate's mutex: triggers, whose actions call
\* back into the gate, activations whose effects expire, the cleanup timer
\* threads and the manual cleanups.
NextLock ==
  \/ \E k \in Keys : TriggerDirect(k)
  \/ Activate(KeyEmergency, ShortEffect, "_cleanup_emergency_mode")
  \/ \E i \in CleanupTimerIds : CleanupFire(i)
  \/ \E i \in CleanupTimerIds : CleanupEffect(i)
  \/ ForceCleanup(KeyEmergency)
  \/ CleanupAll
  \/ CleanupTick

SpecLock == Init /\ [][NextLock]_vars

(***************************************************************************)
(* The three kinds of thread together: the foreground thread types digits  *)
(* and activates the emergency effect, resolve timers run                  *)
(* _process_channel, cleanup timers run _cleanup_effect.                   *)
(***************************************************************************)
NextThreads ==
  \/ \E d \in QuietDigits : AddDigit(d)
  \/ ClearQueue
  \/ \E t \in TimerIds : TimerFire(t)
  \/ \E t \in TimerIds : ProcessChannel(t)
  \/ Activate(KeyEmergency, ShortEffect, "_cleanup_emergency_mode")
  \/ \E i \in CleanupTimerIds : CleanupFire(i)
  \/ \E i \in CleanupTimerIds : CleanupEffect(i)
  \/ GateTick

SpecThreads == Init /\ [][NextThreads]_vars

(***************************************************************************)
(* The channel steps from any current channel, in the list or not.         *)
(***************************************************************************)
NextStep ==
  \/ \E channel \in 0..MaxChannel : AssignCurrentChannel(channel)
  \/ ChannelUp
  \/ ChannelDown

SpecStep == Init /\ [][NextStep]_vars

(***************************************************************************)
(* trigger_easter_egg called by two threads: its cooldown check and its    *)
(* activation take the manager's lock one after the other.                 *)
(***************************************************************************)
\* trigger_easter_egg up to the cooldown check: a key on cooldown is
\* refused, any other goes on to its activation
TriggerCheck(th, k) ==
  /\ trig[th].pc = "idle"
  /\ IF ~CanActivate(last_activation, k, Registry[k].cooldown, now)
     THEN /\ Commit(XTriggerBlocked(Ctx, k, now))
          /\ lastOp' = Called([Op("trigger_easter_egg") EXCEPT !.buf = k],
                              XTriggerBlocked(Ctx, k, now))
          /\ UNCHANGED <<trig, hostVars>>
     ELSE /\ Commit(XRead(Ctx))
          /\ lastOp' = Called([Op("can_activate") EXCEPT !.buf = k], XRead(Ctx))
          /\ trig' = [trig EXCEPT ![th] = [pc |-> "checked", key |-> k]]
          /\ UNCHANGED hostVars
  /\ UNCHANGED <<dialerVars, now>>

\* trigger_easter_egg after the cooldown check: message, activation, action
TriggerActivate(th) ==
  /\ trig[th].pc = "checked"
  /\ CanTrigger(Ctx, trig[th].key)
  /\ \E ok \in BOOLEAN :
       /\ Commit(XTriggerFire(Ctx, trig[th].key, now, ok))
       /\ lastOp' = Called([Op("trigger_easter_egg") EXCEPT
                              !.buf = trig[th].key],
                           XTriggerFire(Ctx, trig[th].key, now, ok))
  /\ trig' = [trig EXCEPT ![th] = [pc |-> "idle", key |-> <<>>]]
  /\ UNCHANGED hostVars
  /\ UNCHANGED <<dialerVars, now>>

NextTrigger ==
  \/ \E th \in Threads, k \in Keys : TriggerCheck(th, k)
  \/ \E th \in Threads : TriggerActivate(th)
  \/ Tick

SpecTrigger == Init /\ [][NextTrigger]_vars

(***************************************************************************)
(* Properties of the dialer, checked under Spec.                           *)
(***************************************************************************)
\* The handle names a timer that still exists, and is set only while
\* digits are queued.
HandleIsOutstanding ==
  timer # None => timer \in Outstanding(timers) /\ digit_queue # <<>>

\* C1: in every reachable state at most one resolve timer is live (armed
\* and neither cancelled nor completed).
C1_AtMostOneLiveTimer == Cardinality(Live(timers)) <= 1

\* C2: a resolve callback whose timer was cancelled (by clear_queue, by an
\* immediate match or by a later add_digit) before it got the lock is a
\* silent no-op: no tune, no trigger, nothing published, queue and timer
\* handle unchanged.
C2_StaleCallbackIsNoOp ==
  (lastOp.op = "_process_channel" /\ lastOp.cancelled)
    => /\ lastOp.tuned = <<>>
       /\ lastOp.fired = <<>>
       /\ lastOp.blocked = <<>>
       /\ published = <<>>
       /\ digit_queue = lastOp.buf
       /\ timer = lastOp.handle

\* The decimal value of a digit string, most significant digit first.
DecimalValue(s) ==
  LET pow10(n) == IF n = 0 THEN 1 ELSE IF n = 1 THEN 10 ELSE IF n = 2 THEN 100
                  ELSE IF n = 3 THEN 1000 ELSE IF n = 4 THEN 10000 ELSE 100000
      RECURSIVE sum(_)
      sum(i) == IF i > Len(s) THEN 0 ELSE s[i] * pow10(Len(s) - i) + sum(i + 1)
  IN sum(1)

\* C3: digits typed into an empty queue, each less than the digit timeout
\* after the one before and matching no special key, are resolved by one
\* _process_channel call: it runs no earlier than one digit timeout after
\* the last digit, calls tune exactly once, with the number the digits
\* spell, and leaves the queue empty and the handle unset.
C3_ResolvedExactlyOnce ==
  (lastOp.op = "_process_channel" /\ lastOp.clean /\ lastOp.buf # <<>>
     /\ lastOp.buf \notin Keys)
    => /\ now >= last_digit_time + DigitTimeout
       /\ lastOp.tuned = <<DecimalValue(lastOp.buf)>>
       /\ lastOp.fired = <<>>
       /\ digit_queue = <<>>
       /\ timer = None

\* C4: the add_digit that makes the queue equal a registered key K invokes
\* K's action at most once and returns with the queue empty, the handle
\* unset and no resolve timer live.
C4_KeyFiresImmediately ==
  (lastOp.op = "add_digit" /\ lastOp.buf \in Keys)
    => /\ lastOp.fired \in {<<>>, <<lastOp.buf>>}
       /\ digit_queue = <<>>
       /\ timer = None
       /\ lastOp.armed = None
       /\ Live(timers) = {}

C12_ClearIdempotent ==
  (lastOp.op = "clear_queue" /\ lastOp.afterClear)
    => /\ lastOp.buf = <<>> /\ digit_queue = <<>>
       /\ lastOp.handle = None /\ timer = None
       /\ Live(timers) = lastOp.live
       /\ Live(timers) = {}
       /\ current_channel = lastOp.prev

\* C13: a _process_channel that gets the lock right after clear_queue had
\* it finds the queue empty and does nothing: no tune, no trigger, nothing
\* published, the current channel, the queue and the handle unchanged.
C13_ClearBeatsResolve ==
  (lastOp.op = "_process_channel" /\ lastOp.afterClear)
    => /\ lastOp.buf = <<>>
       /\ lastOp.tuned = <<>>
       /\ lastOp.fired = <<>>
       /\ lastOp.blocked = <<>>
       /\ published = <<>>
       /\ current_channel = lastOp.prev
       /\ digit_queue = <<>>
       /\ timer = None

C13_Witness ==
  /\ lastOp.op = "_process_channel"
  /\ lastOp.afterClear
  /\ lastOp.cancelled
  /\ lastOp.tuned = <<>>
  /\ published = <<>>

(***************************************************************************)
(* Properties of the channel registry, checked under SpecChannel.          *)
(***************************************************************************)
\* C9: tune_to_channel(n) with n outside the valid list leaves
\* current_channel unchanged, shows the rejection text and then the
\* unchanged channel again, and publishes direct, n, valid false with the
\* unchanged channel as fallback; with n in the list it sets
\* current_channel to n and publishes valid true.
C9_TuneValidates ==
  lastOp.op = "tune_to_channel"
    => LET n == lastOp.tuned[1]
       IN IF n \in {1, 2, 3, 8, 9, 13}
          THEN /\ current_channel = n
               /\ published = <<[command |-> "direct", channel |-> n,
                                 valid |-> TRUE, fallback_channel |-> None]>>
          ELSE /\ current_channel = lastOp.prev
               /\ published = <<[command |-> "direct", channel |-> n,
                                 valid |-> FALSE,
                                 fallback_channel |-> lastOp.prev]>>
               /\ Len(display) = 2
               /\ display[1] = [cmd |-> "DISP:NOPE", arg |-> <<>>]
               /\ display[2].cmd = "DISP:num"
               /\ DecimalValue(display[2].arg) = lastOp.prev

C9_Witness ==
  /\ lastOp.op = "tune_to_channel"
  /\ lastOp.tuned = <<12>>
  /\ lastOp.prev = 1
  /\ current_channel = 1
  /\ published[1].valid = FALSE
  /\ published[1].fallback_channel = 1

\* The valid list as a ring: each channel's successor.
RingNext == (1 :> 2) @@ (2 :> 3) @@ (3 :> 8) @@ (8 :> 9) @@ (9 :> 13) @@ (13 :> 1)

\* C10: from a current channel in the valid list, channel up moves to the
\* next entry and channel down to the previous one, wrapping at both ends:
\* up from 13 gives 1, down from 1 gives 13.
C10_StepWraps ==
  /\ (lastOp.op = "channel_up" /\ lastOp.prev \in DOMAIN RingNext)
       => current_channel = RingNext[lastOp.prev]
  /\ (lastOp.op = "channel_down" /\ lastOp.prev \in DOMAIN RingNext)
       => RingNext[current_channel] = lastOp.prev

C10_Witness ==
  /\ lastOp.op = "channel_up"
  /\ lastOp.prev = 13
  /\ current_channel = 1
  /\ published[1].command = "up"

\* C11: after any sequence of tune, channel up, channel down, special-key
\* triggers (full reset among them) and set_current_channel, the current
\* channel is a member of the valid channel list.
C11_CurrentChannelValid == current_channel \in {1, 2, 3, 8, 9, 13}

C11_Witness ==
  /\ lastOp.op = "trigger_easter_egg"
  /\ lastOp.fired = <<KeyReset>>
  /\ lastOp.tuned = <<1>>
  /\ lastOp.prev = 13
  /\ current_channel = 1

(***************************************************************************)
(* Properties of the cooldown manager, checked under SpecGate.             *)
(***************************************************************************)
\* C5: the cleanup of a key never runs more often than the key has effects
\* that were allowed to expire (started, and not cancelled by a later
\* activate or a manual cleanup).
C5_CleanupOncePerEffect == \A k \in Keys : effects[k].owed >= 0

\* The timer a key's entry names still exists and belongs to the key.
CleanupTimerIsOutstanding ==
  \A k \in Keys :
    cleanup_timers[k] # None
      => /\ cleanup_timers[k] \in Outstanding(ctimers)
         /\ ctimers[cleanup_timers[k]].key = k

\* C6: a key never activated can be activated; a key last activated at t0
\* cannot be activated with cooldown C at any time before t0 + C and can be
\* from t0 + C on.
C6_CooldownMonotone ==
  \A k \in Keys, C \in GateCooldowns :
    IF effects[k].activated_at = NoTime
    THEN CanActivate(last_activation, k, C, now)
    ELSE CanActivate(last_activation, k, C, now)
           <=> now >= effects[k].activated_at + C

C6_Witness ==
  /\ effects[KeyReset].activated_at = StartTime
  /\ now = StartTime + 1
  /\ ~CanActivate(last_activation, KeyReset, 2, now)
  /\ CanActivate(last_activation, KeyReset, 1, now)
  /\ CanActivate(last_activation, KeyEmergency, 2, now)

(***************************************************************************)
(* Properties of trigger_easter_egg, checked under SpecTrigger.            *)
(***************************************************************************)
\* C7: any two invocations of a key's action are at least the key's
\* cooldown apart.
C7_ActionsRespectCooldown ==
  \A k \in Keys :
    effects[k].prev_action_at # NoTime
      => effects[k].action_at - effects[k].prev_action_at >= Registry[k].cooldown

\* C14: when the action of a triggered key raises, the trigger still
\* returns normally and the activation made before the action stays: the
\* key's last activation is the time of the trigger, the key is on
\* cooldown, and the cleanup of its effect is scheduled.
C14_FailedActionKeepsActivation ==
  (lastOp.op = "trigger_easter_egg" /\ lastOp.failed)
    => LET k == lastOp.buf
           config == Registry[k]
       IN /\ lastOp.fired = <<k>>
          /\ last_activation[k] = now
          /\ ~CanActivate(last_activation, k, config.cooldown, now)
          /\ (config.duration > 0 /\ config.cleanup # "none")
               => /\ active_effects[k] = now + config.duration
                  /\ cleanup_timers[k] # None
                  /\ ctimers[cleanup_timers[k]].state = "armed"
                  /\ ctimers[cleanup_timers[k]].deadline = now + config.duration
                  /\ ctimers[cleanup_timers[k]].key = k

C14_Witness ==
  /\ lastOp.op = "trigger_easter_egg"
  /\ lastOp.failed
  /\ lastOp.buf = KeyEmergency
  /\ last_activation[KeyEmergency] = now
  /\ cleanup_timers[KeyEmergency] # None
  /\ display = <<ShowText("DISP:SHIT")>>

\* C15: a trigger refused because the key is on cooldown changes no state:
\* the action and the cleanup are not invoked, and last_activation,
\* active_effects, cleanup_timers and the cleanup timers stay as they were,
\* so the key's cooldown is neither restarted nor extended.
C15_BlockedTriggerIsNoOp ==
  [][(lastOp'.op = "trigger_easter_egg" /\ lastOp'.blocked # <<>>)
       => /\ lastOp'.fired = <<>>
          /\ lastOp'.tuned = <<>>
          /\ last_activation' = last_activation
          /\ active_effects' = active_effects
          /\ cleanup_timers' = cleanup_timers
          /\ ctimers' = ctimers
          /\ effects' = effects
          /\ current_channel' = current_channel
          /\ published' = <<>>]_vars

C15_Witness ==
  /\ lastOp.op = "trigger_easter_egg"
  /\ lastOp.blocked = <<KeyReset>>
  /\ lastOp.fired = <<>>
  /\ last_activation[KeyReset] = now - 1
  /\ display = <<[cmd |-> "LED:nack", arg |-> <<>>],
                 [cmd |-> "DISP:MMSS", arg |-> <<0, 0, 0, 1>>]>>

\* C16: cleanup_all empties active_effects and cleanup_timers, cancels every
\* timer it held and invokes no cleanup callback itself; and once it has
\* returned, the cleanup callback of a timer it cancelled never runs.
C16_CleanupAllIsFinal ==
  /\ lastOp.op = "cleanup_all"
       => /\ lastOp.cleaned = <<>>
          /\ \A k \in Keys : active_effects[k] = NoTime /\ cleanup_timers[k] = None
          /\ \A i \in lastOp.live : i \notin Live(ctimers)
  /\ (lastOp.op = "_cleanup_effect" /\ lastOp.wiped) => lastOp.cleaned = <<>>

\* C17: force_cleanup(k) cancels the cleanup timer the gate holds for k and
\* removes k from active_effects and cleanup_timers without invoking any
\* cleanup callback, leaving the other keys and the cooldowns alone; when k
\* has no active effect it changes nothing.
C17_ForceCleanup ==
  [][lastOp'.op = "force_cleanup"
       => LET k == lastOp'.buf
          IN /\ lastOp'.cleaned = <<>>
             /\ display' = <<>>
             /\ active_effects'[k] = NoTime
             /\ cleanup_timers'[k] = None
             /\ cleanup_timers[k] # None
                  => cleanup_timers[k] \notin Live(ctimers')
             /\ \A j \in Keys \ {k} :
                  /\ active_effects'[j] = active_effects[j]
                  /\ cleanup_timers'[j] = cleanup_timers[j]
             /\ \A i \in CleanupTimerIds \ {cleanup_timers[k]} :
                  ctimers'[i] = ctimers[i]
             /\ last_activation' = last_activation
             /\ active_effects[k] = NoTime
                  => /\ cleanup_timers' = cleanup_timers
                     /\ ctimers' = ctimers
                     /\ effects' = effects]_vars

C17_Witness ==
  /\ lastOp.op = "force_cleanup"
  /\ lastOp.buf = KeyEmergency
  /\ lastOp.t # None
  /\ ctimers[lastOp.t].state = "free"
  /\ active_effects[KeyEmergency] = NoTime
  /\ cleanup_timers[KeyReset] # None

\* The dialer is idle: the queue is empty, no timer handle is kept and no
\* timer thread is left.
Idle == digit_queue = <<>> /\ timer = None /\ Outstanding(timers) = {}

C19_MutexDiscipline ==
  /\ ~lastOp.bare
  /\ ~lastOp.inside
  /\ ~lastOp.stuck

\* a full reset fired by a trigger wiped the effect of the emergency key
\* activated in the same second
C19_Witness ==
  /\ lastOp.op = "trigger_easter_egg"
  /\ lastOp.fired = <<KeyReset>>
  /\ ~lastOp.failed
  /\ last_activation[KeyEmergency] = now
  /\ active_effects[KeyEmergency] = NoTime
  /\ C19_MutexDiscipline

\* C20: no callback that runs on a timer thread (_process_channel of a
\* resolve timer, _cleanup_effect of a cleanup timer) changes
\* current_channel: after such a callback the channel is the one before it.
C20_TimerThreadsLeaveChannel ==
  lastOp.op \in {"_process_channel", "_cleanup_effect"}
    => current_channel = lastOp.prev

ProperPrefix(p, l) == Len(p) < Len(l) /\ SubSeq(l, 1, Len(p)) = p

\* C21: matching is eager: when a registered key p is a proper prefix of a
\* registered key l, the add_digit that completes p fires p and clears the
\* queue, the queue never holds l, and no operation fires l.
C21_PrefixShadowsLonger ==
  \A p \in registry, l \in registry :
    ProperPrefix(p, l)
      => /\ (lastOp.op = "add_digit" /\ lastOp.buf = p)
              => (lastOp.fired = <<p>> /\ digit_queue = <<>>)
         /\ digit_queue # l
         /\ \A i \in 1..Len(lastOp.fired) : lastOp.fired[i] # l
         /\ l \in Keys => effects[l].action_at = NoTime

C21_Witness ==
  /\ ProperPrefix(KeyPrefix, KeyReset)
  /\ {KeyPrefix, KeyReset} \subseteq registry
  /\ lastOp.op = "add_digit"
  /\ lastOp.buf = KeyPrefix
  /\ lastOp.fired = <<KeyPrefix>>
  /\ digit_queue = <<>>

\* C22: between operations the dialer is either idle (queue empty, no
\* timer handle) or accumulating (queue not empty, and the handle names a
\* timer that is live).
C22_IdleOrAccumulating ==
  \/ digit_queue = <<>> /\ timer = None
  \/ digit_queue # <<>> /\ timer # None /\ timer \in Live(timers)

\* accumulating, while a cancelled timer's callback is still on its way
C22_Witness ==
  /\ digit_queue # <<>>
  /\ timer # None
  /\ timers[timer].state = "armed"
  /\ \E t \in TimerIds : timers[t].state = "dispatched" /\ timers[t].cancelled

\* C23: the queue is resolved as a channel number only after a full quiet
\* period: when _process_channel tunes, the last add_digit is at least the
\* digit timeout back, and digits typed into an empty queue with every gap
\* shorter than the timeout are tuned as the one number they spell.
C23_TunedAfterQuietPeriod ==
  (lastOp.op = "_process_channel" /\ lastOp.fired = <<>> /\ lastOp.tuned # <<>>)
    => /\ now - last_digit_time >= DigitTimeout
       /\ lastOp.clean => lastOp.tuned = <<ParseInt(lastOp.buf)>>

\* C24: between operations of the gate, a key has an expiry time in
\* active_effects exactly when it has a timer in cleanup_timers.
C24_SameKeySet ==
  \A k \in Keys : (active_effects[k] # NoTime) <=> (cleanup_timers[k] # None)

\* the late callback of a replaced timer removed the key from both maps
\* while the replacement timer is still armed
C24_Witness ==
  /\ lastOp.op = "_cleanup_effect"
  /\ lastOp.cancelled
  /\ active_effects[lastOp.buf] = NoTime
  /\ cleanup_timers[lastOp.buf] = None
  /\ \E i \in CleanupTimerIds :
       ctimers[i].state = "armed" /\ ctimers[i].key = lastOp.buf

\* C25: is_effect_active(k) is true exactly while the timed effect k was
\* last activated with is running, that is while the timer of that
\* activation has neither been cancelled nor run its callback; the callback
\* of an earlier, replaced activation does not end it.
C25_ActiveWhileRunning ==
  \A k \in Keys :
    IsEffectActive(active_effects, k)
      <=> \E i \in Live(ctimers) : ctimers[i].key = k

\* C26: activate_easter_egg(k, ...) records last_activation[k] = now
\* whether or not the key's cooldown has elapsed.
C26_ActivateRecordsAlways ==
  lastOp.op = "activate_easter_egg" => last_activation[lastOp.buf] = now

C26_Witness ==
  /\ lastOp.op = "activate_easter_egg"
  /\ lastOp.early
  /\ last_activation[lastOp.buf] = now

\* C27: the cooldown ledger only grows: no operation removes a key from
\* last_activation or lowers its time (an absent key counts as NoTime,
\* below every time).
C27_LedgerOnlyGrows ==
  [][\A k \in Keys : last_activation'[k] >= last_activation[k]]_vars

\* a full reset has just wiped the effect of the emergency key, and that
\* key is still on cooldown
C27_Witness ==
  /\ lastOp.op = "trigger_easter_egg"
  /\ lastOp.fired = <<KeyReset>>
  /\ active_effects[KeyEmergency] = NoTime
  /\ last_activation[KeyEmergency] # NoTime
  /\ ~CanActivate(last_activation, KeyEmergency,
                  Registry[KeyEmergency].cooldown, now)

\* C28: keys are independent: activate_easter_egg(k, ...), the expiry
\* callback of an effect of k and force_cleanup(k) leave the last
\* activation, the expiry time and the cleanup timer of every other key as
\* they were.
C28_KeysIndependent ==
  [][lastOp'.op \in {"activate_easter_egg", "_cleanup_effect", "force_cleanup"}
       => \A j \in Keys \ {lastOp'.buf} :
            /\ last_activation'[j] = last_activation[j]
            /\ active_effects'[j] = active_effects[j]
            /\ cleanup_timers'[j] = cleanup_timers[j]
            /\ cleanup_timers[j] # None
                 => ctimers'[cleanup_timers[j]] = ctimers[cleanup_timers[j]]]_vars

\* the effect of one key has expired and its callback has run, while the
\* other key's effect, started with the same callback, is still active
C28_Witness ==
  /\ lastOp.op = "_cleanup_effect"
  /\ lastOp.cleaned # <<>>
  /\ \E j \in Keys \ {lastOp.buf} :
       /\ active_effects[j] # NoTime
       /\ cleanup_timers[j] # None
       /\ ctimers[cleanup_timers[j]].cb = lastOp.cleaned[1]

\* C29: _process_channel with digits in the queue checks them against the
\* registry as it is now: a queue that equals a registered key, also one
\* registered while the digits were waiting, fires that key and is not
\* tuned; any other queue is tuned as the number it spells; either way the
\* queue is empty and the handle unset afterwards.
C29_ResolveRechecksRegistry ==
  (lastOp.op = "_process_channel" /\ lastOp.buf # <<>>)
    => /\ lastOp.buf \in registry
            => (lastOp.fired = <<lastOp.buf>> /\ lastOp.tuned = <<>>)
       /\ lastOp.buf \notin registry
            => (lastOp.fired = <<>> /\ lastOp.tuned = <<ParseInt(lastOp.buf)>>)
       /\ digit_queue = <<>>
       /\ timer = None

C29_Witness ==
  /\ lastOp.op = "_process_channel"
  /\ lastOp.buf = KeyLate
  /\ lastOp.fired = <<KeyLate>>
  /\ lastOp.tuned = <<>>
  /\ digit_queue = <<>>
  /\ timer = None

\* C30: a trigger that fires its key has, at the moment the action is
\* called, the key's message as the last command sent, the activation on
\* record with the call's time, the cleanup timer of a timed effect armed,
\* and can_activate already refusing the key; a trigger that finds the key
\* on cooldown stops before any of this: no message, no action.
C30_ActivationBeforeAction ==
  lastOp.op = "trigger_easter_egg"
    => /\ lastOp.fired = <<lastOp.buf>>
            => /\ Len(lastOp.started) = 1
               /\ LET s == lastOp.started[1]
                      config == Registry[lastOp.buf]
                  IN /\ s.key = lastOp.buf
                     /\ s.shown = <<ShowText(config.display)>>
                     /\ s.recorded
                     /\ HasEffect(config.duration, config.cleanup) => s.armed
                     /\ ~s.open
       /\ lastOp.blocked = <<lastOp.buf>>
            => /\ lastOp.started = <<>>
               /\ lastOp.fired = <<>>
               /\ \A i \in 1..Len(display) :
                    display[i] # ShowText(Registry[lastOp.buf].display)

C30_Witness ==
  /\ lastOp.op = "trigger_easter_egg"
  /\ lastOp.buf = KeyEmergency
  /\ lastOp.fired = <<KeyEmergency>>
  /\ Len(lastOp.started) = 1
  /\ lastOp.started[1].recorded
  /\ lastOp.started[1].armed
  /\ ~lastOp.started[1].open

\* C31: when the current channel is not in the valid list, channel up
\* sets it to the second entry of the list and channel down to the last
\* one, and it is in the list afterwards.
C31_DesyncedStepsFromFirst ==
  (lastOp.op \in {"channel_up", "channel_down"}
     /\ lastOp.prev \notin {1, 2, 3, 8, 9, 13})
    => /\ lastOp.op = "channel_up" => current_channel = 2
       /\ lastOp.op = "channel_down" => current_channel = 13
       /\ current_channel \in {1, 2, 3, 8, 9, 13}

C31_Witness ==
  /\ lastOp.op = "channel_down"
  /\ lastOp.prev = 5
  /\ current_channel = 13
  /\ published[1].command = "down"
  /\ published[1].channel = 13

\* The sequence ends with a registered key and holds digits before it.
EndsWithKey(sequence) ==
  \E k \in registry :
    /\ Len(k) < Len(sequence)
    /\ SubSeq(sequence, Len(sequence) - Len(k) + 1, Len(sequence)) = k

\* C32: a key is triggered only by a queue that equals it: a queue that
\* holds a digit before the digits of a key ("1911" with "911" registered)
\* triggers nothing, stays queued after add_digit, and _process_channel
\* tunes it as the number all its digits spell.
C32_ExactMatchOnly ==
  lastOp.op \in {"add_digit", "_process_channel"}
    => /\ \A i \in 1..Len(lastOp.fired) : lastOp.fired[i] = lastOp.buf
       /\ \A i \in 1..Len(lastOp.blocked) : lastOp.blocked[i] = lastOp.buf
       /\ lastOp.fired \o lastOp.blocked # <<>> => lastOp.buf \in registry
       /\ (EndsWithKey(lastOp.buf) /\ lastOp.buf \notin registry)
            => /\ lastOp.fired = <<>>
               /\ lastOp.blocked = <<>>
               /\ lastOp.op = "add_digit" => digit_queue = lastOp.buf
               /\ lastOp.op = "_process_channel"
                    => lastOp.tuned = <<DecimalValue(lastOp.buf)>>

C32_Witness ==
  /\ lastOp.op = "_process_channel"
  /\ lastOp.buf = <<1, 9, 1, 1>>
  /\ lastOp.fired = <<>>
  /\ lastOp.blocked = <<>>
  /\ lastOp.tuned = <<1911>>
  /\ last_activation[KeyEmergency] = NoTime

\* The cooldowns the relation is checked for: none, the short ones, and
\* those around the hour of "911".
StatusCooldowns == {0, 1, 2, 3, 3600, 3601, 3602}

\* C33: at every instant, for every key and cooldown, can_activate is true
\* exactly when get_time_until_available is 0, and that time lies between
\* 0 and the cooldown; and a trigger fires its key exactly when the status
\* report taken at the same instant called the key available.
C33_AvailableIffCanActivate ==
  [][/\ \A k \in Keys, C \in StatusCooldowns :
          LET r == TimeUntilAvailable(last_activation', k, C, now')
          IN /\ CanActivate(last_activation', k, C, now') <=> r = 0
             /\ r >= 0
             /\ r <= C
     /\ lastOp'.op = "trigger_easter_egg"
          => (StatusInfo(last_activation, active_effects, now)[lastOp'.buf].available
                <=> lastOp'.fired = <<lastOp'.buf>>)]_vars

C33_Witness ==
  /\ lastOp.op = "trigger_easter_egg"
  /\ lastOp.blocked = <<KeyReset>>
  /\ last_activation[KeyReset] = now - 1
  /\ StatusInfo(last_activation, active_effects, now)[KeyReset].cooldown_remaining = 1
  /\ ~StatusInfo(last_activation, active_effects, now)[KeyReset].available

\* The digits of s from its first non-zero digit on; empty if all are 0.
RECURSIVE StripZeros(_)
StripZeros(s) ==
  IF s = <<>> THEN <<>>
  ELSE IF s[1] = 0 THEN StripZeros(Tail(s)) ELSE s

\* C34: _process_channel tunes a queue that is no key as the number its
\* digits spell once the leading zeros are dropped, so "2", "02" and "002"
\* give the same tune call; a queue of zeros only gives tune(0), which is
\* refused: the channel stays and valid false is published.
C34_LeadingZerosIgnored ==
  (lastOp.op = "_process_channel" /\ lastOp.buf # <<>>
     /\ lastOp.buf \notin registry)
    => /\ lastOp.tuned = <<DecimalValue(StripZeros(lastOp.buf))>>
       /\ published[1].command = "direct"
       /\ published[1].channel = DecimalValue(StripZeros(lastOp.buf))
       /\ StripZeros(lastOp.buf) = <<>>
            => /\ lastOp.tuned = <<0>>
               /\ current_channel = lastOp.prev
               /\ published[1].valid = FALSE
               /\ published[1].fallback_channel = lastOp.prev

C34_Witness ==
  /\ lastOp.op = "_process_channel"
  /\ lastOp.buf = <<0, 0, 2>>
  /\ lastOp.tuned = <<2>>
  /\ lastOp.prev = 1
  /\ current_channel = 2

\* C35: the CHANNEL_UP and CHANNEL_DOWN handlers empty the queue and cancel
\* its timer before they step: the handler tunes nothing, a resolve
\* callback that runs next finds nothing to tune, and the step starts from
\* the channel that was current when the first of the discarded digits was
\* typed, since the channel does not change while digits stay queued.
C35_StepDiscardsDigits ==
  [][/\ (digit_queue # <<>> /\ digit_queue' # <<>>)
          => current_channel' = current_channel
     /\ lastOp'.op \in {"CHANNEL_UP", "CHANNEL_DOWN"}
          => /\ lastOp'.buf = digit_queue
             /\ digit_queue' = <<>>
             /\ timer' = None
             /\ timer # None => timer \notin Live(timers')
             /\ lastOp'.tuned = <<>>
             /\ lastOp'.op = "CHANNEL_UP"
                  => current_channel' = RingNext[current_channel]
             /\ lastOp'.op = "CHANNEL_DOWN"
                  => RingNext[current_channel'] = current_channel
     /\ (lastOp.op \in {"CHANNEL_UP", "CHANNEL_DOWN"}
           /\ lastOp'.op = "_process_channel")
          => /\ lastOp'.tuned = <<>>
             /\ current_channel' = current_channel]_vars

C35_Witness ==
  /\ lastOp.op = "CHANNEL_UP"
  /\ lastOp.buf = <<1, 2>>
  /\ lastOp.prev = 2
  /\ lastOp.handle # None
  /\ timers[lastOp.handle].state = "dispatched"
  /\ timers[lastOp.handle].cancelled
  /\ digit_queue = <<>>
  /\ current_channel = 3

\* C36: should_process_event lets an event through exactly when it differs
\* from the last event let through or comes at least the debounce time
\* after it; an event let through becomes the record, a suppressed one
\* leaves event and time of the record alone, so a repeated event is let
\* through again only a full debounce time after it was last let through.
C36_Debounce ==
  [][lastOp'.op = "should_process_event"
       => LET e == lastOp'.event
          IN /\ lastOp'.ret <=> (e # last_event \/ now - last_event_time >= Debounce)
             /\ lastOp'.ret => (last_event' = e /\ last_event_time' = now)
             /\ ~lastOp'.ret => (last_event' = last_event
                                  /\ last_event_time' = last_event_time)
             /\ (lastOp'.ret /\ e = last_event)
                  => now' - last_event_time >= Debounce]_vars

C36_Witness ==
  /\ lastOp.op = "should_process_event"
  /\ lastOp.event = "DIGIT_0"
  /\ ~lastOp.ret
  /\ last_event = "DIGIT_0"
  /\ last_event_time = now - 1

\* C37: activate_easter_egg always records the key's activation time; it
\* sets an expiry and starts a cleanup timer only when it is given both a
\* non-zero duration and a cleanup callback, and otherwise leaves
\* active_effects, cleanup_timers and every timer as they were, a timer
\* still pending for the key from an earlier activation included.
C37_EffectNeedsBoth ==
  [][lastOp'.op = "activate_easter_egg"
       => LET k == lastOp'.buf
          IN /\ last_activation'[k] = now
             /\ \A j \in Keys \ {k} : last_activation'[j] = last_activation[j]
             /\ lastOp'.both
                  => /\ active_effects'[k] # NoTime
                     /\ cleanup_timers'[k] # None
                     /\ ctimers'[cleanup_timers'[k]].state = "armed"
                     /\ ctimers'[cleanup_timers'[k]].key = k
                     /\ ctimers'[cleanup_timers'[k]].deadline = active_effects'[k]
             /\ ~lastOp'.both
                  => /\ active_effects' = active_effects
                     /\ cleanup_timers' = cleanup_timers
                     /\ ctimers' = ctimers]_vars

C37_Witness ==
  /\ lastOp.op = "activate_easter_egg"
  /\ ~lastOp.both
  /\ last_activation[lastOp.buf] = now
  /\ active_effects[lastOp.buf] = now + 1
  /\ cleanup_timers[lastOp.buf] # None
  /\ ctimers[cleanup_timers[lastOp.buf]].state = "armed"
  /\ effects[lastOp.buf].owed = 1

\* The only nestings of locks: the dialer's lock outermost, the gate's or
\* the display's inside it.
LockOrder == {<<"dialer", "gate">>, <<"dialer", "display">>}

\* C38: no thread asks for a lock it holds, and a thread that holds a
\* lock while asking for another holds the dialer's and asks for the
\* gate's or the display's: nothing is asked for under the gate's or the
\* display's lock, and no action or cleanup callback asks for the dialer's,
\* so the locks are never taken in a cycle.
C38_NoLockCycle ==
  /\ ~lastOp.relock
  /\ ~lastOp.stuck
  /\ lastOp.nested \subseteq LockOrder

C38_Witness ==
  /\ lastOp.op = "add_digit"
  /\ lastOp.fired = <<KeyReset>>
  /\ lastOp.tuned = <<1>>
  /\ lastOp.nested = LockOrder
  /\ ~lastOp.relock
  /\ \E i \in CleanupTimerIds : ctimers[i].state = "dispatched"

\* C39: the worker carries out the commands in the order they were put on
\* the queue, one after the other, and none that was put after stop() was
\* called; once stop() is called the worker thread ends.
C39_FifoAndStop ==
  /\ [](/\ Len(dq_executed) <= Len(dq_log)
        /\ \A i \in 1..Len(dq_executed) :
              /\ dq_executed[i] = dq_log[i]
              /\ ~dq_executed[i].late)
  /\ (dq_stopper # "idle") ~> (dq_worker = "done")

\* the worker has ended after stop() and a command put before the stop is
\* still on the queue
C39_Witness ==
  /\ dq_stopper = "set"
  /\ dq_worker = "done"
  /\ Len(dq_executed) = 1
  /\ \E i \in 1..Len(dq_queue) : dq_queue[i].id = 2 /\ ~dq_queue[i].late
  /\ \E i \in 1..Len(dq_queue) : dq_queue[i].late
=========================================================================
